---- MODULE Spec2Model ----
(***************************************************************************)
(* Model of the adaptive lick trainer (components/SpeedTrainer.tsx): the    *)
(* learn -> lock -> train state machine, its Tone.js beat clock and the     *)
(* timing classification of a note against the beat.                        *)
(*                                                                          *)
(* One action is one handler together with the React effects it triggers:   *)
(* the main listening effect (deps activeNote, trainingState, lastBeatTime, *)
(* complexity) re-runs after every handler that changes one of its deps.    *)
(* Presentation-only state (isActive, isMetronomeAudioEnabled, currentBeat, *)
(* the feedback's display offset and timestamp) is left out.                *)
(***************************************************************************)
EXTENDS Integers, Sequences, FiniteSets, TLC

(* ------------------------------ bounds --------------------------------- *)

\* Pitch classes the stabilizer can deliver (activeNote without octave).
Notes == {"E", "F"}
\* The pitch classes of a single session (no stop), which has room for three.
SessionNotes == {"E", "F", "G"}
\* activeNote when no note is held (currentNote === null).
NoNote == "undefined"

\* Longest rolling history explored in one learning pass.
MaxLearn == 6

\* Most ensureAudioInit calls awaiting Tone.start() at the same time.
MaxPending == 1

\* Slider positions explored for the start and target BPM (range 40..240).
\* Start values divide 60000, so that the beat period is a whole number of
\* milliseconds and the floating point comparisons of the code are exact.
StartChoices == {80, 150}
TargetChoices == {100, 140}

\* Arrival times of a note, in ms since the last tick, explored by the
\* trainer specifications.
Times == {0, 250, 450}

\* Arrival times explored by the beat specification: on the tick, and 150 ms
\* before the next tick of a 750 ms beat.
BeatTimes == {0, 600}

\* Longest rolling history explored by the learning-only specification.
MaxLearnOnly == 8

\* The modes in which learning passes of any length are explored: in simple
\* mode few histories of two pitch classes stay without a repetition.
HistoryModes == {"simple"}

\* The expected streak is counted up to this value.
MaxExpStreak == 3

\* Beat periods (ms) and the largest time since the last tick (ms) explored
\* by the timing specification.
ProbePeriods == {250, 333, 400, 429, 500, 750}
MaxProbeTime == 900

\* Estimates of a frame explored, in half hertz: no pitch, the two ends of
\* the gate and the values next to them, one note at three frequencies less
\* than and more than 1 Hz apart, its octave, and another note.
FrameEstimates ==
  {-1, 2 * 20, 2 * 20 + 1, 2 * 330, 2 * 330 + 1, 2 * 330 + 3, 2 * 349,
   2 * 660, 2 * 4000 - 1, 2 * 4000}

\* Estimates explored while a trainer session runs: no pitch, E4, F4, E5.
StudioEstimates == {-1, 2 * 330, 2 * 349, 2 * 660}

\* Longest list of note names given to the chord matcher.
MaxChordNotes == 4

\* Longest frame given to the autocorrelator, its sample values (-1.0, 0
\* and 1.0) and the sample rates explored.
MaxFrame == 5
Samples == {-1, 0, 1}
SampleRates == {-1, 0, 44100}

\* Estimates explored with the analysis requests: E4, F4 and B7.
AnalysisEstimates == {2 * 330, 2 * 349, 2 * 4000 - 1}

\* Most startListening calls awaiting getUserMedia at the same time, and
\* most analysis requests in flight.
MaxListen == 1
MaxRequests == 2

(* ------------------------- program constants --------------------------- *)

\* if (!isListening || detectedNotes.size < 3) return;
MinBackgroundNotes == 3

\* if (detectedNotes.size < 2) return;
MinManualNotes == 2

\* analyserNode.fftSize, the length of the frames detectPitch reads.
FrameLength == 2048

\* rms < 0.005, as 1 / rms^2
SilenceInverse == 40000

COMPLEXITY_CONFIG ==
  [ simple   |-> [min |-> 2, max |-> 4],
    balanced |-> [min |-> 3, max |-> 6],
    complex  |-> [min |-> 4, max |-> 10] ]

Modes == {"simple", "balanced", "complex"}

\* [...prev, activeNote].slice(-20)
HistoryLimit == 20

\* next >= 5 in the setPatternMatches updater
ConfirmTarget == 5

\* useState(5); setIncrement is never called
increment == 5

\* 60000 / currentBpm
MsPerMinute == 60000

\* now - lastBeatTime while lastBeatTime is still its initial 0: Date.now()
\* itself, far beyond every beat period.
FarTime == 100000

NoFeedback == [msg |-> "null", hitType |-> "none"]

VARIABLES
  trainingState,              \* 'idle' | 'learning' | 'locked' | 'training'
  complexity,                 \* ComplexityMode
  noteHistory,                \* rolling history of the learning phase
  learnedPattern,             \* LearnedPattern
  patternMatches,             \* confirmation counter
  startBpm, bpm, targetBpm,   \* trainer configuration and session BPM
  streak, bestStreak,
  lastBeatTime,               \* 0 = initial value, 1 = timestamp of a tick
  feedback,                   \* last feedback, NoFeedback for null
  loopRef,                    \* TRUE iff loopRef.current holds a started loop
  loopTrainingState,          \* trainingState captured by the loop callback
  streakRef,
  hasPlayedOnThisBeatRef,     \* per-beat hit flag
  currentPatternProgressRef,  \* pattern cursor
  activeNote,                 \* prop activeNote
  transportState,             \* Tone.Transport.state
  transportBpm,               \* Tone.Transport.bpm.value
  pendingInit,                \* ensureAudioInit calls suspended at await
  timeSinceLastBeat,          \* now - lastBeatTime of the latest run of the
                              \* training phase in this handler, else FarTime
  \* Observers: the training session as section 4.5 of the design defines
  \* it, driven by the same note events and ticks as the code.  They run
  \* only in the behaviours that start with observing = TRUE.
  observing,
  expCursor,                  \* cursor that wraps at the pattern length
  expHit,                     \* per-beat hit flag
  expStreak,                  \* completed cycles since the last missed beat
  expAccepted,                \* notes the locked phase accepted in this cycle
  expCredit,                  \* the beat the latest accepted hit belongs to
  \* Input and outcome of the timing classification on its own.
  probe,
  \* The App component (pitch detection, note set, AI analysis).
  isListening,
  currentNote,                \* NoteData or NoNoteData for null
  detectedNotes,              \* DetectedPitchClassSet
  analysis,                   \* stored ScaleAnalysis, NoAnalysis for null
  isAnalyzing,                \* in-flight flag of the manual request
  isLiveUpdating,             \* in-flight flag of the background request
  animationRef,               \* number of update loops with a frame scheduled
  pendingListen,              \* startListening calls awaiting getUserMedia
  debounceTimerRef,           \* armed background timer (its closure) or NoTimer
  requests,                   \* analyzeMusicalContext calls in flight
  consoleError,               \* the request whose failure was logged last
  frame,                      \* estimate of the latest frame, in half hertz
  \* Inputs and outcomes of the chord matcher and of the autocorrelator on
  \* their own.
  chord,
  correlation

trainerVars == << trainingState, complexity, noteHistory, learnedPattern,
           patternMatches, startBpm, bpm, targetBpm, streak, bestStreak,
           lastBeatTime, feedback, loopRef, loopTrainingState, streakRef,
           hasPlayedOnThisBeatRef, currentPatternProgressRef, activeNote,
           transportState, transportBpm, pendingInit, timeSinceLastBeat,
           observing, expCursor, expHit, expStreak, expAccepted,
           expCredit >>

appVars == << isListening, currentNote, detectedNotes, analysis, isAnalyzing,
             isLiveUpdating, animationRef, pendingListen, debounceTimerRef,
             requests, consoleError, frame >>

pureVars == << probe, chord, correlation >>

vars == << trainerVars, appVars, pureVars >>

(* ------------------------------ helpers -------------------------------- *)

Min(a, b) == IF a < b THEN a ELSE b

Abs(x) == IF x < 0 THEN -x ELSE x

\* Array.prototype.slice(-n): the last n elements (all of them if fewer).
LastN(s, n) ==
  IF Len(s) <= n THEN s ELSE SubSeq(s, Len(s) - n + 1, Len(s))

\* next.slice(-len * 2, -len), used only when next.length >= 2 * len
PrevN(s, len) == SubSeq(s, Len(s) - 2 * len + 1, Len(s) - len)

\* learnedPattern[i] with a 0-based index; undefined outside the array.
At(p, i) == IF i >= 0 /\ i < Len(p) THEN p[i + 1] ELSE NoNote

\* The state of the component as one record.
Cur ==
  [ trainingState |-> trainingState, complexity |-> complexity,
    noteHistory |-> noteHistory, learnedPattern |-> learnedPattern,
    patternMatches |-> patternMatches, startBpm |-> startBpm, bpm |-> bpm,
    targetBpm |-> targetBpm, streak |-> streak, bestStreak |-> bestStreak,
    lastBeatTime |-> lastBeatTime, feedback |-> feedback,
    loopRef |-> loopRef, loopTrainingState |-> loopTrainingState,
    streakRef |-> streakRef,
    hasPlayedOnThisBeatRef |-> hasPlayedOnThisBeatRef,
    currentPatternProgressRef |-> currentPatternProgressRef,
    activeNote |-> activeNote, transportState |-> transportState,
    transportBpm |-> transportBpm, pendingInit |-> pendingInit,
    timeSinceLastBeat |-> FarTime, observing |-> observing,
    expCursor |-> expCursor, expHit |-> expHit, expStreak |-> expStreak,
    expAccepted |-> expAccepted, expCredit |-> expCredit ]

\* The trainer's next state is the record s.
CommitTrainer(s) ==
  /\ trainingState' = s.trainingState
  /\ complexity' = s.complexity
  /\ noteHistory' = s.noteHistory
  /\ learnedPattern' = s.learnedPattern
  /\ patternMatches' = s.patternMatches
  /\ startBpm' = s.startBpm
  /\ bpm' = s.bpm
  /\ targetBpm' = s.targetBpm
  /\ streak' = s.streak
  /\ bestStreak' = s.bestStreak
  /\ lastBeatTime' = s.lastBeatTime
  /\ feedback' = s.feedback
  /\ loopRef' = s.loopRef
  /\ loopTrainingState' = s.loopTrainingState
  /\ streakRef' = s.streakRef
  /\ hasPlayedOnThisBeatRef' = s.hasPlayedOnThisBeatRef
  /\ currentPatternProgressRef' = s.currentPatternProgressRef
  /\ activeNote' = s.activeNote
  /\ transportState' = s.transportState
  /\ transportBpm' = s.transportBpm
  /\ pendingInit' = s.pendingInit
  /\ timeSinceLastBeat' = s.timeSinceLastBeat
  /\ observing' = s.observing
  /\ expCursor' = s.expCursor
  /\ expHit' = s.expHit
  /\ expStreak' = s.expStreak
  /\ expAccepted' = s.expAccepted
  /\ expCredit' = s.expCredit
  /\ UNCHANGED pureVars

\* The next state is the record s, with the App component left alone.
Commit(s) == CommitTrainer(s) /\ UNCHANGED appVars

(* ------------------- timing of a note against the beat ----------------- *)

\* const period = 60000 / currentBpm (a whole number for the BPMs explored)
Period(b) == MsPerMinute \div b

\* let diff = timeSinceLastBeat;
\* if (timeSinceLastBeat > period / 2) diff = timeSinceLastBeat - period;
Diff(period, t) == IF 2 * t > period THEN t - period ELSE t

\* IsValidTime with the edge of the tolerance window accepted.
IsValidTimeInclusive(period, t) == 10 * Abs(Diff(period, t)) <= 4 * period

\* const isValidTime = Math.abs(diff) < tolerance, tolerance = period * 0.4
IsValidTime(period, t) == 10 * Abs(Diff(period, t)) < 4 * period

\* hitType of an accepted hit
HitType(period, t) ==
  IF 100 * Abs(Diff(period, t)) > 15 * period THEN "fair"
  ELSE IF 100 * Abs(Diff(period, t)) > 5 * period THEN "good"
  ELSE "perfect"

\* msg of an accepted hit
HitMsg(period, t) ==
  IF 100 * Abs(Diff(period, t)) > 15 * period
  THEN (IF Diff(period, t) > 0 THEN "Late" ELSE "Early")
  ELSE IF 100 * Abs(Diff(period, t)) > 5 * period
  THEN (IF Diff(period, t) > 0 THEN "Slightly Late" ELSE "Slightly Early")
  ELSE "Perfect!"

(* --------------------------- the beat clock ---------------------------- *)

\* ensureAudioInit up to its await: the check of Tone.Transport.state is
\* made at the call, the rest runs after Tone.start() resolves.  The closure
\* belongs to the render s, whose bpm and trainingState it captures.
EnsureAudioInit(s) ==
  IF s.transportState # "started"
  THEN [s EXCEPT !.pendingInit =
          Append(@, [bpm |-> s.bpm, trainingState |-> s.trainingState])]
  ELSE s

(* ----------------------- the main listening effect --------------------- *)

\* FindRepeat with the for loop starting at len = 1.
FindRepeatFromOne(next, cfg) ==
  LET hits == { len \in 1 .. cfg.max :
                  /\ Len(next) >= 2 * len
                  /\ LastN(next, len) = PrevN(next, len) }
  IN IF hits = {} THEN 0
     ELSE CHOOSE len \in hits : \A other \in hits : len <= other

\* Smallest len in [min, max] whose last len notes repeat the len notes
\* before them; 0 when the for loop finds none.
FindRepeat(next, cfg) ==
  LET hits == { len \in cfg.min .. cfg.max :
                  /\ Len(next) >= 2 * len
                  /\ LastN(next, len) = PrevN(next, len) }
  IN IF hits = {} THEN 0
     ELSE CHOOSE len \in hits : \A other \in hits : len <= other

\* LearnStep without the slice(-20) of the history.
LearnStepUnbounded(s) ==
  LET next == Append(s.noteHistory, s.activeNote)
      len  == FindRepeat(next, COMPLEXITY_CONFIG[s.complexity])
  IN IF len > 0
     THEN [s EXCEPT !.learnedPattern = LastN(next, len),
                    !.patternMatches = 1,
                    !.trainingState = "locked",
                    !.feedback = [msg |-> "Lick Found", hitType |-> "good"],
                    !.noteHistory = << >>]
     ELSE [s EXCEPT !.noteHistory = next]

\* LEARNING PHASE: the setNoteHistory updater.
LearnStep(s) ==
  LET next == LastN(Append(s.noteHistory, s.activeNote), HistoryLimit)
      len  == FindRepeat(next, COMPLEXITY_CONFIG[s.complexity])
  IN IF len > 0
     THEN [s EXCEPT !.learnedPattern = LastN(next, len),
                    !.patternMatches = 1,
                    !.trainingState = "locked",
                    !.feedback = [msg |-> "Lick Found", hitType |-> "good"],
                    !.noteHistory = << >>]
     ELSE [s EXCEPT !.noteHistory = next]

\* LockedAdvance without the match one position ahead of the cursor.
LockedAdvanceNoSkip(s) ==
  LET cur == s.currentPatternProgressRef
  IN IF s.activeNote = At(s.learnedPattern, cur) THEN cur + 1
     ELSE -1

\* LOCKED PHASE, first half: the cursor after the note; -1 for the early
\* return of an unexpected note.
LockedAdvance(s) ==
  LET cur == s.currentPatternProgressRef
  IN IF s.activeNote = At(s.learnedPattern, cur) THEN cur + 1
     ELSE IF cur + 1 < Len(s.learnedPattern)
             /\ s.activeNote = At(s.learnedPattern, cur + 1) THEN cur + 2
     ELSE -1

\* ConfirmCycle entering training one confirmed cycle early.
ConfirmCycleEarly(s) ==
  LET next == s.patternMatches + 1
      s1   == [s EXCEPT !.currentPatternProgressRef = 0,
                        !.patternMatches = next]
  IN IF next >= ConfirmTarget - 1
     THEN [EnsureAudioInit(s1) EXCEPT
             !.trainingState = "training",
             !.feedback = [msg |-> "READY... GO!", hitType |-> "perfect"]]
     ELSE s1

\* LOCKED PHASE, second half: the setPatternMatches updater.
ConfirmCycle(s) ==
  LET next == s.patternMatches + 1
      s1   == [s EXCEPT !.currentPatternProgressRef = 0,
                        !.patternMatches = next]
  IN IF next >= ConfirmTarget
     THEN [EnsureAudioInit(s1) EXCEPT
             !.trainingState = "training",
             !.feedback = [msg |-> "READY... GO!", hitType |-> "perfect"]]
     ELSE s1

\* LockedStep dropping the lock, back to learning, on an unexpected note.
LockedStepRelearn(s) ==
  LET cur == LockedAdvance(s)
  IN IF cur = -1 THEN [s EXCEPT !.trainingState = "learning"]
     ELSE IF cur >= Len(s.learnedPattern) THEN ConfirmCycle(s)
     ELSE [s EXCEPT !.currentPatternProgressRef = cur]

\* LOCKED PHASE
LockedStep(s) ==
  LET cur == LockedAdvance(s)
  IN IF cur = -1 THEN s
     ELSE IF cur >= Len(s.learnedPattern) THEN ConfirmCycle(s)
     ELSE [s EXCEPT !.currentPatternProgressRef = cur]

\* HitAccepted without the test of the per-beat flag.
HitAcceptedAnyTime(s, t) ==
  /\ s.activeNote = At(s.learnedPattern, s.currentPatternProgressRef)
  /\ IsValidTime(Period(s.transportBpm), t)

\* The condition of the training phase under which a note is a hit.
HitAccepted(s, t) ==
  /\ s.activeNote = At(s.learnedPattern, s.currentPatternProgressRef)
  /\ IsValidTime(Period(s.transportBpm), t)
  /\ ~s.hasPlayedOnThisBeatRef

\* The cursor after an accepted hit: currentPatternProgressRef.current++
HitCursor(s) == s.currentPatternProgressRef + 1

\* The setStreak updater of a hit that completed a cycle.
StreakStep(s, period, t) ==
  LET next == s.streak + 1
      s1   == [s EXCEPT !.streak = next,
                        !.bestStreak = IF next > s.bestStreak THEN next ELSE @]
  IN IF next % 3 = 0
     THEN [s1 EXCEPT !.bpm = Min(s.bpm + increment, s.targetBpm),
                     !.feedback = [msg |-> "LEVEL UP!", hitType |-> "perfect"]]
     ELSE [s1 EXCEPT !.feedback = [msg |-> HitMsg(period, t),
                                   hitType |-> HitType(period, t)]]

\* TRAINING PHASE; t is now - lastBeatTime.
TrainingStep(s, t) ==
  LET period == Period(s.transportBpm)
      s0     == [s EXCEPT !.timeSinceLastBeat = t]
  IN IF HitAccepted(s, t)
     THEN LET s1 == [s0 EXCEPT !.hasPlayedOnThisBeatRef = TRUE,
                               !.currentPatternProgressRef = HitCursor(s)]
          IN IF s1.currentPatternProgressRef = 0
             THEN StreakStep(s1, period, t)
             ELSE [s1 EXCEPT !.feedback = [msg |-> HitMsg(period, t),
                                           hitType |-> HitType(period, t)]]
     ELSE s0

\* One run of the effect in the render s.
Effect(s, t) ==
  IF s.trainingState = "idle" \/ s.activeNote = NoNote THEN s
  ELSE IF s.trainingState = "learning" THEN LearnStep(s)
  ELSE IF s.trainingState = "locked" THEN LockedStep(s)
  ELSE TrainingStep(s, t)

\* The effect after one of its deps changed, run again when it changed
\* trainingState itself, followed by the effect that syncs streakRef.
Rerun(s, t) ==
  LET s1 == Effect(s, t)
      s2 == IF s1.trainingState # s.trainingState THEN Effect(s1, t) ELSE s1
  IN [s2 EXCEPT !.streakRef = s2.streak]

(* ------------ the session the design describes (observers) ------------ *)

\* Section 4.5, hit evaluation: the note event n, t ms after the last tick,
\* is a hit when it is the element at the cursor, no hit was accepted in
\* this beat, and it lies inside the tolerance window.
ExpNote(o, n, t) ==
  LET len == Len(o.learnedPattern)
  IN IF /\ n = At(o.learnedPattern, o.expCursor)
        /\ ~o.expHit
        /\ IsValidTime(Period(o.transportBpm), t)
     THEN [ expCursor |-> (o.expCursor + 1) % len,
            expHit    |-> TRUE,
            expStreak |-> IF o.expCursor + 1 = len
                          THEN Min(o.expStreak + 1, MaxExpStreak)
                          ELSE o.expStreak ]
     ELSE [ expCursor |-> o.expCursor, expHit |-> o.expHit,
            expStreak |-> o.expStreak ]

\* Section 4.5, miss detection: a tick after a beat window without a hit
\* ends the streak; every tick clears the per-beat flag.
ExpTick(o) ==
  [ expCursor |-> o.expCursor, expHit |-> FALSE,
    expStreak |-> IF ~o.expHit THEN 0 ELSE o.expStreak ]

\* The notes the locked phase accepted since the cursor was last 0, after
\* a handler that took the state o to s: the handler that makes the lock may
\* accept its note at once, a completed cycle starts the count again.
ExpAccepted(o, s) ==
  IF ~o.observing \/ s.trainingState # "locked" THEN 0
  ELSE IF o.trainingState # "locked"
  THEN (IF s.patternMatches = 1 /\ s.currentPatternProgressRef # 0
        THEN 1 ELSE 0)
  ELSE IF s.patternMatches # o.patternMatches THEN 0
  ELSE IF s.currentPatternProgressRef # o.currentPatternProgressRef
  THEN o.expAccepted + 1
  ELSE o.expAccepted

\* The beat to which the hit accepted last is credited, after a handler
\* that took the state o to s: an early hit (negative offset) belongs to the
\* "next" tick, any other hit to the tick before it, "this" beat; a tick
\* turns "next" into "this", and starts a beat with no hit ("none")
\* otherwise.
ExpCredit(o, s, kind, t) ==
  LET accepted == s.hasPlayedOnThisBeatRef /\ ~o.hasPlayedOnThisBeatRef
  IN IF \/ ~o.observing
        \/ o.trainingState # "training"
        \/ s.trainingState # "training"
     THEN "none"
     ELSE IF kind = "tick"
     THEN (IF o.expCredit = "next" \/ s.hasPlayedOnThisBeatRef
           THEN "this" ELSE "none")
     ELSE IF kind = "note" /\ accepted
     THEN (IF Diff(Period(o.transportBpm), t) < 0 THEN "next" ELSE "this")
     ELSE o.expCredit

\* The observers after a handler that took the state o to s; kind is
\* "note" for a note event n at t, "tick" for a beat.
Observe(o, s, kind, n, t) ==
  LET e == IF \/ ~o.observing
              \/ o.trainingState # "training"
              \/ s.trainingState # "training"
           THEN [expCursor |-> 0, expHit |-> FALSE, expStreak |-> 0]
           ELSE IF kind = "note" /\ n # NoNote THEN ExpNote(o, n, t)
           ELSE IF kind = "tick" THEN ExpTick(o)
           ELSE [expCursor |-> o.expCursor, expHit |-> o.expHit,
                 expStreak |-> o.expStreak]
  IN [s EXCEPT !.expCursor = e.expCursor, !.expHit = e.expHit,
               !.expStreak = e.expStreak,
               !.expAccepted = ExpAccepted(o, s),
               !.expCredit = ExpCredit(o, s, kind, t)]

(* ------------------------------- actions ------------------------------- *)

\* The model's bounds on a state.
InBounds(s) ==
  /\ Len(s.noteHistory) <= MaxLearn
  /\ Len(s.pendingInit) <= MaxPending

\* now - lastBeatTime of an effect run that no tick triggered.  Only the
\* training phase reads it, and a handler reaches that phase from locked or
\* training only.
ArrivalTimes ==
  IF lastBeatTime = 0 \/ trainingState \in {"idle", "learning"}
  THEN {FarTime}
  ELSE Times \cup {FarTime}

TrainerInit ==
  /\ trainingState = "idle"
  /\ complexity = "balanced"
  /\ noteHistory = << >>
  /\ learnedPattern = << >>
  /\ patternMatches = 0
  /\ startBpm = 80
  /\ bpm = 80
  /\ targetBpm = 140
  /\ streak = 0
  /\ bestStreak = 0
  /\ lastBeatTime = 0
  /\ feedback = NoFeedback
  /\ loopRef = FALSE
  /\ loopTrainingState = "idle"
  /\ streakRef = 0
  /\ hasPlayedOnThisBeatRef = FALSE
  /\ currentPatternProgressRef = 0
  /\ activeNote = NoNote
  /\ transportState = "stopped"
  /\ transportBpm = 120      \* Tone.Transport's default tempo
  /\ pendingInit = << >>
  /\ timeSinceLastBeat = FarTime
  /\ expCursor = 0
  /\ expHit = FALSE
  /\ expStreak = 0
  /\ expAccepted = 0
  /\ expCredit = "none"

NoProbe == [period |-> 0, t |-> 0, done |-> FALSE, valid |-> FALSE,
            diff |-> 0, hitType |-> "none", msg |-> "null"]

\* autoCorrelate's "no pitch", also the frame estimate before any frame.
NoPitch == -1

\* null for currentNote, analysis and debounceTimerRef.current.
NoNoteData == [note |-> << >>, frequency |-> 0]
NoAnalysis == [present |-> FALSE, notes |-> {}]
NoTimer == [armed |-> FALSE, isAnalyzing |-> FALSE, isLiveUpdating |-> FALSE,
            detectedNotes |-> {}]

\* The App component after construction.
AppInit ==
  /\ isListening = FALSE
  /\ currentNote = NoNoteData
  /\ detectedNotes = {}
  /\ analysis = NoAnalysis
  /\ isAnalyzing = FALSE
  /\ isLiveUpdating = FALSE
  /\ animationRef = 0
  /\ pendingListen = 0
  /\ debounceTimerRef = NoTimer
  /\ requests = << >>
  /\ consoleError = "none"
  /\ frame = NoPitch

NoChord == [notes |-> << >>, done |-> FALSE,
            result |-> [found |-> FALSE, root |-> "null", type |-> "null",
                        suffix |-> "null"]]
NoCorrelation == [buf |-> << >>, sampleRate |-> 0, done |-> FALSE,
                  outcome |-> [kind |-> "none", num |-> 0, den |-> 1]]

\* The chord matcher and the autocorrelator are not exercised.
NoPure == chord = NoChord /\ correlation = NoCorrelation

Init ==
  /\ TrainerInit /\ observing = FALSE /\ probe = NoProbe
  /\ AppInit /\ NoPure

\* The stabilizer changes activeNote (to a pitch class or to undefined).
NoteEvent(n, t) ==
  /\ n # activeNote
  /\ LET s == Rerun([Cur EXCEPT !.activeNote = n], t)
     IN InBounds(s) /\ Commit(Observe(Cur, s, "note", n, t))

\* startLearning, the button's handler while idle.
StartLearning ==
  /\ trainingState = "idle"
  /\ LET s == Rerun([Cur EXCEPT !.trainingState = "learning",
                                !.learnedPattern = << >>,
                                !.patternMatches = 0,
                                !.streak = 0,
                                !.bpm = startBpm], FarTime)
     IN InBounds(s) /\ Commit(Observe(Cur, s, "start", NoNote, FarTime))

\* StopAllAudio leaving the learned pattern and the counter in place.
StopAllAudioKeepsPattern ==
  /\ trainingState # "idle"
  /\ LET s == Rerun([Cur EXCEPT !.transportState = "stopped",
                                !.loopRef = FALSE,
                                !.trainingState = "idle",
                                !.noteHistory = << >>,
                                !.feedback = NoFeedback], FarTime)
     IN Commit(Observe(Cur, s, "stop", NoNote, FarTime))

\* stopAllAudio, the button's handler while not idle.
StopAllAudio ==
  /\ trainingState # "idle"
  /\ LET s == Rerun([Cur EXCEPT !.transportState = "stopped",
                                !.loopRef = FALSE,
                                !.trainingState = "idle",
                                !.learnedPattern = << >>,
                                !.patternMatches = 0,
                                !.noteHistory = << >>,
                                !.feedback = NoFeedback], FarTime)
     IN Commit(Observe(Cur, s, "stop", NoNote, FarTime))

\* TickCallback without its last statement, the reset of the per-beat flag.
TickCallbackKeepsFlag(s) ==
  LET s1 == [s EXCEPT !.lastBeatTime = 1]
  IN IF /\ s.loopTrainingState = "training"
        /\ ~s.hasPlayedOnThisBeatRef
        /\ s.streakRef > 0
     THEN [s1 EXCEPT !.streak = 0,
                     !.feedback = [msg |-> "Missed Beat!", hitType |-> "miss"]]
     ELSE s1

\* The callback of the Tone.Loop as drawn.
TickCallback(s) ==
  LET s1 == [s EXCEPT !.lastBeatTime = 1]
      s2 == IF /\ s.loopTrainingState = "training"
               /\ ~s.hasPlayedOnThisBeatRef
               /\ s.streakRef > 0
            THEN [s1 EXCEPT !.streak = 0,
                            !.feedback = [msg |-> "Missed Beat!",
                                          hitType |-> "miss"]]
            ELSE s1
  IN [s2 EXCEPT !.hasPlayedOnThisBeatRef = FALSE]

\* A beat of the running clock; the new lastBeatTime re-runs the effect.
Tick ==
  /\ transportState = "started"
  /\ loopRef
  /\ LET s == Rerun(TickCallback(Cur), 0)
     IN InBounds(s) /\ Commit(Observe(Cur, s, "tick", NoNote, 0))

\* ensureAudioInit after its await.
AudioInitResume ==
  /\ pendingInit # << >>
  /\ LET call == Head(pendingInit)
     IN Commit([Cur EXCEPT
          !.pendingInit = Tail(@),
          !.loopRef = TRUE,
          !.loopTrainingState = IF loopRef THEN @ ELSE call.trainingState,
          !.transportBpm = call.bpm,
          !.transportState = "started"])

\* The sliders and the mode buttons, disabled unless idle.
SetStartBpm(v) ==
  /\ trainingState = "idle"
  /\ v # startBpm
  /\ Commit([Cur EXCEPT !.startBpm = v])

SetTargetBpm(v) ==
  /\ trainingState = "idle"
  /\ v # targetBpm
  /\ Commit([Cur EXCEPT !.targetBpm = v])

SetComplexity(m) ==
  /\ trainingState = "idle"
  /\ m # complexity
  /\ Commit(Rerun([Cur EXCEPT !.complexity = m], FarTime))

\* The trainer across sessions: notes, beats, start, stop and restart, the
\* clock's asynchronous start and the mode buttons, with the sliders left
\* at their initial positions.
Next ==
  \/ \E n \in Notes \cup {NoNote}, t \in ArrivalTimes : NoteEvent(n, t)
  \/ StartLearning
  \/ StopAllAudio
  \/ Tick
  \/ AudioInitResume
  \/ \E m \in Modes : SetComplexity(m)

Spec == Init /\ [][Next]_vars

\* One session from a fresh component: the mode is chosen, the session is
\* started and runs without a stop, over three pitch classes.
SessionNext ==
  \/ \E n \in SessionNotes \cup {NoNote}, t \in ArrivalTimes : NoteEvent(n, t)
  \/ StartLearning
  \/ Tick
  \/ AudioInitResume
  \/ \E m \in Modes : SetComplexity(m)

SessionSpec == Init /\ [][SessionNext]_vars

\* One session over two pitch classes, with the observers running.
ObservedNext ==
  \/ \E n \in Notes \cup {NoNote}, t \in ArrivalTimes : NoteEvent(n, t)
  \/ StartLearning
  \/ Tick
  \/ AudioInitResume
  \/ \E m \in Modes : SetComplexity(m)

ObservedInit ==
  /\ TrainerInit /\ observing = TRUE /\ probe = NoProbe
  /\ AppInit /\ NoPure

ObservedSpec == ObservedInit /\ [][ObservedNext]_vars

\* One learning pass from a fresh component, up to the lock, with a longer
\* history: a note event while learning, after the mode and the sliders
\* were set.
LearnNote(n) ==
  /\ trainingState = "learning"
  /\ Len(noteHistory) < MaxLearnOnly
  /\ n # activeNote
  /\ LET s == Rerun([Cur EXCEPT !.activeNote = n], FarTime)
     IN Commit(Observe(Cur, s, "note", n, FarTime))

LearnNext ==
  \/ \E n \in SessionNotes \cup {NoNote} : LearnNote(n)
  \/ StartLearning
  \/ \E m \in Modes : SetComplexity(m)
  \/ \E v \in StartChoices : SetStartBpm(v)
  \/ \E v \in TargetChoices : SetTargetBpm(v)

LearnSpec == Init /\ [][LearnNext]_vars

\* A note event while locked, in a session whose clock has not started.
LockedNote(n) ==
  /\ trainingState = "locked"
  /\ n # activeNote
  /\ LET s == Rerun([Cur EXCEPT !.activeNote = n], FarTime)
     IN Commit(Observe(Cur, s, "note", n, FarTime))

\* One session from a fresh component up to the entry into training, with
\* the longer history and the observers running: the mode is chosen, a
\* pattern is learnt and its cycles are confirmed.
ConfirmNext ==
  \/ \E n \in SessionNotes \cup {NoNote} : LearnNote(n)
  \/ \E n \in SessionNotes \cup {NoNote} : LockedNote(n)
  \/ StartLearning
  \/ \E m \in Modes : SetComplexity(m)

ConfirmInit ==
  /\ TrainerInit /\ observing = TRUE /\ probe = NoProbe
  /\ AppInit /\ NoPure

ConfirmSpec == ConfirmInit /\ [][ConfirmNext]_vars

\* A note event while learning, however long the history is.
LongLearnNote(n) ==
  /\ trainingState = "learning"
  /\ complexity \in HistoryModes
  /\ n # activeNote
  /\ LET s == Rerun([Cur EXCEPT !.activeNote = n], FarTime)
     IN Commit(Observe(Cur, s, "note", n, FarTime))

\* Learning passes of any length over two pitch classes, with start, stop
\* and restart.
HistoryNext ==
  \/ \E n \in Notes \cup {NoNote} : LongLearnNote(n)
  \/ StartLearning
  \/ StopAllAudio
  \/ \E m \in Modes : SetComplexity(m)

HistoryInit ==
  /\ TrainerInit /\ observing = FALSE /\ probe = NoProbe
  /\ AppInit /\ NoPure

HistorySpec == HistoryInit /\ [][HistoryNext]_vars

\* now - lastBeatTime of a note event of the beat specification.
BeatArrivalTimes ==
  IF lastBeatTime = 0 \/ trainingState \in {"idle", "learning"}
  THEN {FarTime}
  ELSE BeatTimes

\* One session over two pitch classes whose notes arrive on the beat or
\* ahead of it, with the observers running.
BeatNext ==
  \/ \E n \in Notes \cup {NoNote}, t \in BeatArrivalTimes : NoteEvent(n, t)
  \/ StartLearning
  \/ Tick
  \/ AudioInitResume
  \/ \E m \in Modes : SetComplexity(m)

BeatInit ==
  /\ TrainerInit /\ observing = TRUE /\ probe = NoProbe
  /\ AppInit /\ NoPure

BeatSpec == BeatInit /\ [][BeatNext]_vars

\* The timing classification on its own: the period and the time since the
\* last tick are drawn at the start.
ProbeInit ==
  /\ TrainerInit
  /\ observing = FALSE
  /\ probe \in { [NoProbe EXCEPT !.period = p, !.t = t] :
                   p \in ProbePeriods, t \in 0 .. MaxProbeTime }
  /\ AppInit /\ NoPure

\* What the training phase computes for a note on the cursor.
Classify ==
  /\ ~probe.done
  /\ probe' = [probe EXCEPT
       !.done = TRUE,
       !.valid = IsValidTime(probe.period, probe.t),
       !.diff = Diff(probe.period, probe.t),
       !.hitType = HitType(probe.period, probe.t),
       !.msg = HitMsg(probe.period, probe.t)]
  /\ UNCHANGED << trainerVars, appVars, chord, correlation >>

TimingSpec == ProbeInit /\ [][Classify]_vars

TypeOK ==
  /\ trainingState \in {"idle", "learning", "locked", "training"}
  /\ complexity \in Modes
  /\ patternMatches \in 0 .. ConfirmTarget
  /\ streak \in Nat /\ bestStreak \in Nat /\ streakRef = streak
  /\ lastBeatTime \in {0, 1}
  /\ hasPlayedOnThisBeatRef \in BOOLEAN /\ loopRef \in BOOLEAN
  /\ currentPatternProgressRef \in Nat
  /\ activeNote \in SessionNotes \cup {"B", NoNote}
  /\ transportState \in {"stopped", "started"}
  /\ expAccepted \in Nat /\ expCredit \in {"none", "next", "this"}
  /\ isListening \in BOOLEAN /\ isAnalyzing \in BOOLEAN
  /\ isLiveUpdating \in BOOLEAN
  /\ detectedNotes \subseteq SessionNotes \cup {"B"}
  /\ animationRef \in Nat /\ pendingListen \in 0 .. MaxListen
  /\ Len(requests) <= MaxRequests
  /\ frame \in FrameEstimates

(* --------------------------- the App component ------------------------- *)

\* x Hz in the unit of the frame estimates, half a hertz.
Hz(x) == 2 * x

\* getNoteFromFrequency on the estimates explored: the name and octave of
\* round(12 * log2(f / 440)) + 69 (330, 330.5 and 331.5 Hz are E4, 349 Hz is
\* F4, 660 Hz is E5, 20 Hz is D#0, 20.5 Hz is E0, 3999.5 and 4000 Hz are
\* B7).
GetNoteFromFrequency(f) ==
  CASE f \in {Hz(330), Hz(330) + 1, Hz(330) + 3} -> [name |-> "E", octave |-> 4]
    [] f = Hz(349)      -> [name |-> "F", octave |-> 4]
    [] f = Hz(660)      -> [name |-> "E", octave |-> 5]
    [] f = Hz(20) + 1   -> [name |-> "E", octave |-> 0]
    [] f = Hz(20)       -> [name |-> "D#", octave |-> 0]
    [] f \in {Hz(4000) - 1, Hz(4000)} -> [name |-> "B", octave |-> 7]

\* Pitched with the two ends of the range let through.
PitchedInclusive(f) == f # NoPitch /\ f >= Hz(20) /\ f <= Hz(4000)

\* The gate of detectPitch: freq !== -1 && freq > 20 && freq < 4000
Pitched(f) == f # NoPitch /\ f > Hz(20) /\ f < Hz(4000)

\* NextNote keeping the previous note at a drift of exactly 1 Hz too.
NextNoteLoose(prev, f) ==
  LET n    == GetNoteFromFrequency(f)
      note == << n.name, n.octave >>
  IN IF /\ prev # NoNoteData
        /\ prev.note = note
        /\ Abs(prev.frequency - f) <= Hz(1)
     THEN prev
     ELSE [note |-> note, frequency |-> f]

\* The setCurrentNote updater; note is name followed by octave.
NextNote(prev, f) ==
  LET n    == GetNoteFromFrequency(f)
      note == << n.name, n.octave >>
  IN IF /\ prev # NoNoteData
        /\ prev.note = note
        /\ Abs(prev.frequency - f) < Hz(1)
     THEN prev
     ELSE [note |-> note, frequency |-> f]

\* The setDetectedNotes updater.
NextDetected(prev, f) == prev \cup {GetNoteFromFrequency(f).name}

\* activeNoteName = currentNote?.note.replace(/\d+/, '')
ActiveNoteName(cn) == IF cn = NoNoteData THEN NoNote ELSE cn.note[1]

\* The background effect after a render in which detectedNotes (as an
\* object) or isListening changed: the old timer is cleared, and a new one
\* is armed whose closure holds the flags and the set of that render.
BackgroundTimer(changed, listening, notes, analyzing, live, old) ==
  IF ~changed THEN old
  ELSE IF ~listening \/ Cardinality(notes) < MinBackgroundNotes THEN NoTimer
  ELSE [armed |-> TRUE, isAnalyzing |-> analyzing, isLiveUpdating |-> live,
        detectedNotes |-> notes]

\* The trainer receives the prop activeNote = n: its effect runs when the
\* prop changed.
TrainerProp(n, t) ==
  IF n = activeNote THEN UNCHANGED << trainerVars, pureVars >>
  ELSE LET s == Rerun([Cur EXCEPT !.activeNote = n], t)
       IN InBounds(s) /\ CommitTrainer(Observe(Cur, s, "note", n, t))

\* One run of update, the requestAnimationFrame callback, on a frame whose
\* estimate is f.
Frame(f, t) ==
  /\ animationRef > 0
  /\ frame' = f
  /\ currentNote' = IF Pitched(f) THEN NextNote(currentNote, f)
                    ELSE currentNote
  /\ detectedNotes' = IF Pitched(f) THEN NextDetected(detectedNotes, f)
                      ELSE detectedNotes
  /\ debounceTimerRef' =
       BackgroundTimer(detectedNotes' # detectedNotes, isListening,
                       detectedNotes', isAnalyzing, isLiveUpdating,
                       debounceTimerRef)
  /\ UNCHANGED << isListening, analysis, isAnalyzing, isLiveUpdating,
                  animationRef, pendingListen, requests >>
  /\ TrainerProp(ActiveNoteName(currentNote'), t)
  /\ UNCHANGED consoleError

\* stopListening
StopListening(t) ==
  /\ animationRef' = IF animationRef > 0 THEN animationRef - 1 ELSE 0
  /\ isListening' = FALSE
  /\ currentNote' = NoNoteData
  /\ debounceTimerRef' =
       BackgroundTimer(isListening, FALSE, detectedNotes, isAnalyzing,
                       isLiveUpdating, debounceTimerRef)
  /\ TrainerProp(NoNote, t)

\* StopButton emptying the note set as well.
StopButtonClears(t) ==
  /\ isListening
  /\ StopListening(t)
  /\ detectedNotes' = {}
  /\ UNCHANGED << analysis, isAnalyzing, isLiveUpdating, pendingListen,
                  requests, frame >>
  /\ UNCHANGED consoleError

\* The Stop button, shown while listening.
StopButton(t) ==
  /\ isListening
  /\ StopListening(t)
  /\ UNCHANGED << detectedNotes, analysis, isAnalyzing, isLiveUpdating,
                  pendingListen, requests, frame >>
  /\ UNCHANGED consoleError

\* startListening up to its await, the Listen button shown while not
\* listening: stopListening(), then getUserMedia is awaited.
StartListening(t) ==
  /\ ~isListening
  /\ pendingListen < MaxListen
  /\ StopListening(t)
  /\ pendingListen' = pendingListen + 1
  /\ UNCHANGED << detectedNotes, analysis, isAnalyzing, isLiveUpdating,
                  requests, frame >>
  /\ UNCHANGED consoleError

\* startListening after its await: the stream was granted (ok) or not.
ListenResume(ok) ==
  /\ pendingListen > 0
  /\ pendingListen' = pendingListen - 1
  /\ isListening' = (isListening \/ ok)
  /\ animationRef' = IF ok THEN animationRef + 1 ELSE animationRef
  /\ debounceTimerRef' =
       BackgroundTimer(isListening' # isListening, isListening',
                       detectedNotes, isAnalyzing, isLiveUpdating,
                       debounceTimerRef)
  /\ UNCHANGED << currentNote, detectedNotes, analysis, isAnalyzing,
                  isLiveUpdating, requests, frame >>
  /\ UNCHANGED << trainerVars, pureVars >>
  /\ UNCHANGED consoleError

\* The Reset button of the note set: a new empty Set and no analysis.
ResetNotes ==
  /\ detectedNotes' = {}
  /\ analysis' = NoAnalysis
  /\ debounceTimerRef' =
       BackgroundTimer(TRUE, isListening, {}, isAnalyzing, isLiveUpdating,
                       debounceTimerRef)
  /\ UNCHANGED << isListening, currentNote, isAnalyzing, isLiveUpdating,
                  animationRef, pendingListen, requests, frame >>
  /\ UNCHANGED << trainerVars, pureVars >>
  /\ UNCHANGED consoleError

\* runAnalysis up to its await; the button is disabled with fewer than two
\* notes or while a manual request is in flight.
RunAnalysis ==
  /\ Cardinality(detectedNotes) >= MinManualNotes
  /\ ~isAnalyzing
  /\ Len(requests) < MaxRequests
  /\ isAnalyzing' = TRUE
  /\ requests' = Append(requests, [kind |-> "manual", notes |-> detectedNotes])
  /\ UNCHANGED << isListening, currentNote, detectedNotes, analysis,
                  isLiveUpdating, animationRef, pendingListen,
                  debounceTimerRef, frame >>
  /\ UNCHANGED << trainerVars, pureVars >>
  /\ UNCHANGED consoleError

\* The background timer fires after 4000 ms: its closure tests the flags it
\* captured, and sends the set it captured.
TimerFire ==
  /\ debounceTimerRef.armed
  /\ debounceTimerRef' = NoTimer
  /\ IF debounceTimerRef.isAnalyzing \/ debounceTimerRef.isLiveUpdating
     THEN UNCHANGED << isLiveUpdating, requests >>
     ELSE /\ Len(requests) < MaxRequests
          /\ isLiveUpdating' = TRUE
          /\ requests' = Append(requests,
                           [kind |-> "background",
                            notes |-> debounceTimerRef.detectedNotes])
  /\ UNCHANGED << isListening, currentNote, detectedNotes, analysis,
                  isAnalyzing, animationRef, pendingListen, frame >>
  /\ UNCHANGED << trainerVars, pureVars >>
  /\ UNCHANGED consoleError

\* requests without its i-th element.
Without(q, i) == SubSeq(q, 1, i - 1) \o SubSeq(q, i + 1, Len(q))

\* AnalysisDone leaving the flag of a failed request set.
AnalysisDoneStuck(i, ok) ==
  /\ i \in 1 .. Len(requests)
  /\ requests' = Without(requests, i)
  /\ analysis' = IF ok THEN [present |-> TRUE, notes |-> requests[i].notes]
                 ELSE analysis
  /\ isAnalyzing' = IF requests[i].kind = "manual" /\ ok THEN FALSE
                    ELSE isAnalyzing
  /\ isLiveUpdating' = IF requests[i].kind = "background" /\ ok THEN FALSE
                       ELSE isLiveUpdating
  /\ consoleError' = IF ok THEN consoleError ELSE requests[i].kind
  /\ UNCHANGED << isListening, currentNote, detectedNotes, animationRef,
                  pendingListen, debounceTimerRef, frame >>
  /\ UNCHANGED << trainerVars, pureVars >>

\* analyzeMusicalContext settles for the i-th request in flight: with a
\* result (ok) or with an error, which is logged; finally the request's
\* flag is cleared.
AnalysisDone(i, ok) ==
  /\ i \in 1 .. Len(requests)
  /\ requests' = Without(requests, i)
  /\ analysis' = IF ok THEN [present |-> TRUE, notes |-> requests[i].notes]
                 ELSE analysis
  /\ isAnalyzing' = IF requests[i].kind = "manual" THEN FALSE
                    ELSE isAnalyzing
  /\ isLiveUpdating' = IF requests[i].kind = "background" THEN FALSE
                       ELSE isLiveUpdating
  /\ consoleError' = IF ok THEN consoleError ELSE requests[i].kind
  /\ UNCHANGED << isListening, currentNote, detectedNotes, animationRef,
                  pendingListen, debounceTimerRef, frame >>
  /\ UNCHANGED << trainerVars, pureVars >>

\* The App component with the trainer left idle: listening, frames, the
\* note set and the analysis requests.
AppNext ==
  \/ \E f \in FrameEstimates : Frame(f, FarTime)
  \/ StopButton(FarTime)
  \/ StartListening(FarTime)
  \/ \E ok \in BOOLEAN : ListenResume(ok)
  \/ ResetNotes
  \/ RunAnalysis
  \/ TimerFire
  \/ \E i \in 1 .. MaxRequests, ok \in BOOLEAN : AnalysisDone(i, ok)

AppSpec == Init /\ [][AppNext]_vars

\* The App component with a trainer session running: the frames are the
\* source of the trainer's note events.  No analysis is requested, and the
\* beat clock's start stays pending.
StudioNext ==
  \/ \E f \in StudioEstimates, t \in ArrivalTimes : Frame(f, t)
  \/ \E t \in ArrivalTimes : StopButton(t)
  \/ StartListening(FarTime)
  \/ \E ok \in BOOLEAN : ListenResume(ok)
  \/ ResetNotes
  \/ StartLearning
  \/ StopAllAudio

StudioSpec == Init /\ [][StudioNext]_vars

\* The analysis requests while a trainer session is learning: frames of
\* three pitch classes, the manual and the background request, their
\* success and failure.
AnalysisNext ==
  \/ \E f \in AnalysisEstimates : Frame(f, FarTime)
  \/ StartListening(FarTime)
  \/ \E ok \in BOOLEAN : ListenResume(ok)
  \/ RunAnalysis
  \/ TimerFire
  \/ \E i \in 1 .. MaxRequests, ok \in BOOLEAN : AnalysisDone(i, ok)
  \/ StartLearning

AnalysisSpec == Init /\ [][AnalysisNext]_vars

(* --------------------------- the chord matcher ------------------------- *)

NOTE_NAMES ==
  << "C", "C#", "D", "D#", "E", "F", "F#", "G", "G#", "A", "A#", "B" >>

CHORD_TYPES ==
  << [name |-> "Major",         intervals |-> << 0, 4, 7 >>,     suffix |-> ""],
     [name |-> "Minor",         intervals |-> << 0, 3, 7 >>,     suffix |-> "m"],
     [name |-> "Major 7th",     intervals |-> << 0, 4, 7, 11 >>, suffix |-> "Maj7"],
     [name |-> "Minor 7th",     intervals |-> << 0, 3, 7, 10 >>, suffix |-> "m7"],
     [name |-> "Dominant 7th",  intervals |-> << 0, 4, 7, 10 >>, suffix |-> "7"],
     [name |-> "Suspended 4th", intervals |-> << 0, 5, 7 >>,     suffix |-> "sus4"],
     [name |-> "Suspended 2nd", intervals |-> << 0, 2, 7 >>,     suffix |-> "sus2"],
     [name |-> "Diminished",    intervals |-> << 0, 3, 6 >>,     suffix |-> "dim"],
     [name |-> "Augmented",     intervals |-> << 0, 4, 8 >>,     suffix |-> "aug"],
     [name |-> "Power Chord",   intervals |-> << 0, 7 >>,        suffix |-> "5"] >>

\* identifyChord's null.
NoMatch == [found |-> FALSE, root |-> "null", type |-> "null",
            suffix |-> "null"]

\* NOTE_NAMES.indexOf(n), 0-based.
IndexOf(n) == (CHOOSE i \in 1 .. Len(NOTE_NAMES) : NOTE_NAMES[i] = n) - 1

\* The elements of a set of numbers in ascending order: sort((a, b) => a - b)
RECURSIVE Sorted(_)
Sorted(S) ==
  IF S = {} THEN << >>
  ELSE LET m == CHOOSE x \in S : \A y \in S : x <= y
       IN << m >> \o Sorted(S \ {m})

\* Array.from(new Set(...)) in the order of first occurrence.
RECURSIVE Distinct(_)
Distinct(q) ==
  IF q = << >> THEN << >>
  ELSE LET front == Distinct(SubSeq(q, 1, Len(q) - 1))
           last  == q[Len(q)]
       IN IF \E i \in 1 .. Len(front) : front[i] = last THEN front
          ELSE Append(front, last)

\* noteIndices as the code has it, and without its sort.
NoteIndices(notes) == Sorted({IndexOf(notes[i]) : i \in 1 .. Len(notes)})
NoteIndicesUnsorted(notes) ==
  Distinct([i \in 1 .. Len(notes) |-> IndexOf(notes[i])])

\* relativeIntervals for a root (its order does not matter to includes).
RelativeIntervals(indices, root) ==
  {(indices[i] - root + 12) % 12 : i \in 1 .. Len(indices)}

\* type.intervals.every(int => relativeIntervals.includes(int))
IsMatch(type, relative) ==
  \A j \in 1 .. Len(type.intervals) : type.intervals[j] \in relative

\* ScanTypes returning the last type that matches, not the first.
ScanTypesLast(relative, k) ==
  LET hits == { j \in k .. Len(CHORD_TYPES) : IsMatch(CHORD_TYPES[j], relative) }
  IN IF hits = {} THEN 0
     ELSE CHOOSE j \in hits : \A i \in hits : i <= j

\* for (const type of CHORD_TYPES), from the k-th type on: the index of the
\* first type that matches, 0 for none.
RECURSIVE ScanTypes(_, _)
ScanTypes(relative, k) ==
  IF k > Len(CHORD_TYPES) THEN 0
  ELSE IF IsMatch(CHORD_TYPES[k], relative) THEN k
  ELSE ScanTypes(relative, k + 1)

\* for (let rootIdx = 0; ...), from the rootIdx-th index (1-based) on.
RECURSIVE ScanRoots(_, _)
ScanRoots(indices, rootIdx) ==
  IF rootIdx > Len(indices) THEN NoMatch
  ELSE LET root == indices[rootIdx]
           k    == ScanTypes(RelativeIntervals(indices, root), 1)
       IN IF k > 0
          THEN [found |-> TRUE, root |-> NOTE_NAMES[root + 1],
                type |-> CHORD_TYPES[k].name,
                suffix |-> CHORD_TYPES[k].suffix]
          ELSE ScanRoots(indices, rootIdx + 1)

\* identifyChord with the roots tried in the order the notes were given.
IdentifyChordUnsorted(notes) ==
  IF Len(notes) < 2 THEN NoMatch
  ELSE ScanRoots(NoteIndicesUnsorted(notes), 1)

\* identifyChord
IdentifyChord(notes) ==
  IF Len(notes) < 2 THEN NoMatch
  ELSE ScanRoots(NoteIndices(notes), 1)

\* The lists of note names given to the matcher.
ChordInputs ==
  UNION { [1 .. n -> {NOTE_NAMES[i] : i \in 1 .. Len(NOTE_NAMES)}] :
            n \in 0 .. MaxChordNotes }

ChordInit ==
  /\ TrainerInit /\ observing = FALSE /\ probe = NoProbe /\ AppInit
  /\ correlation = NoCorrelation
  /\ chord \in { [NoChord EXCEPT !.notes = q] : q \in ChordInputs }

Identify ==
  /\ ~chord.done
  /\ chord' = [chord EXCEPT !.done = TRUE, !.result = IdentifyChord(chord.notes)]
  /\ UNCHANGED << trainerVars, appVars, probe, correlation >>

ChordSpec == ChordInit /\ [][Identify]_vars

\* The names of a set of pitch classes (0..11), in ascending order.
NamesOf(S) == [i \in 1 .. Cardinality(S) |-> NOTE_NAMES[Sorted(S)[i] + 1]]

\* The matcher on every set of pitch classes.
ChordSetInit ==
  /\ TrainerInit /\ observing = FALSE /\ probe = NoProbe /\ AppInit
  /\ correlation = NoCorrelation
  /\ chord \in { [NoChord EXCEPT !.notes = NamesOf(S)] :
                  S \in SUBSET (0 .. Len(NOTE_NAMES) - 1) }

ChordSetSpec == ChordSetInit /\ [][Identify]_vars

(* --------------------------- the autocorrelator ------------------------ *)

\* buf[i], 0-based.
Sample(buf, i) == buf[i + 1]

\* rms * rms * SIZE: the sum of buf[i] * buf[i] for i = from, ..., SIZE - 1.
RECURSIVE SumSquares(_, _)
SumSquares(buf, from) ==
  IF from >= Len(buf) THEN 0
  ELSE Sample(buf, from) * Sample(buf, from) + SumSquares(buf, from + 1)

\* The sum of buf[i] * buf[i + offset] for i = from, ... while i < SIZE / 2.
RECURSIVE LagSum(_, _, _)
LagSum(buf, offset, from) ==
  IF 2 * from >= Len(buf) THEN 0
  ELSE Sample(buf, from) * Sample(buf, from + offset)
         + LagSum(buf, offset, from + 1)

\* correlationBuffer[offset] after the loop: filled below SIZE / 2, else 0.
Correlation(buf, offset) ==
  IF 2 * offset < Len(buf) THEN LagSum(buf, offset, 0) ELSE 0

\* while (correlationBuffer[d] > correlationBuffer[d + 1] && d < maxOffset) d++
RECURSIVE FirstDip(_, _)
FirstDip(buf, d) ==
  IF Correlation(buf, d) > Correlation(buf, d + 1) /\ 2 * d < Len(buf)
  THEN FirstDip(buf, d + 1)
  ELSE d

\* The peak search from i on; maxpos of the highest value found first.
RECURSIVE Peak(_, _, _, _)
Peak(buf, i, maxval, maxpos) ==
  IF 2 * i >= Len(buf) THEN maxpos
  ELSE IF Correlation(buf, i) > maxval
  THEN Peak(buf, i + 1, Correlation(buf, i), i)
  ELSE Peak(buf, i + 1, maxval, maxpos)

\* The value autoCorrelate returns: -1 ("noPitch") or sampleRate / finalPos,
\* kept as the fraction num / den.  No path of the function throws.
AutoCorrelate(buf, sampleRate) ==
  LET SIZE    == Len(buf)
      squares == SumSquares(buf, 0)
      maxpos  == Peak(buf, FirstDip(buf, 0), -1, -1)
      x0      == Correlation(buf, maxpos - 1)
      x1      == Correlation(buf, maxpos)
      x2      == Correlation(buf, maxpos + 1)
      a2      == x0 + x2 - 2 * x1
      b2      == x2 - x0
  IN IF SIZE > 0 /\ squares * SilenceInverse < SIZE
     THEN [kind |-> "noPitch", num |-> -1, den |-> 1]
     ELSE IF maxpos = -1 \/ maxpos = 0
     THEN [kind |-> "noPitch", num |-> -1, den |-> 1]
     ELSE IF maxpos > 0 /\ 2 * maxpos < SIZE - 2 /\ a2 # 0
     THEN [kind |-> "frequency", num |-> sampleRate * 2 * a2,
           den |-> 2 * a2 * maxpos - b2]
     ELSE [kind |-> "frequency", num |-> sampleRate, den |-> maxpos]

\* The frames given to the autocorrelator.
FrameInputs == UNION { [1 .. n -> Samples] : n \in 0 .. MaxFrame }

CorrelationInit ==
  /\ TrainerInit /\ observing = FALSE /\ probe = NoProbe /\ AppInit
  /\ chord = NoChord
  /\ correlation \in { [NoCorrelation EXCEPT !.buf = b, !.sampleRate = r] :
                          b \in FrameInputs, r \in SampleRates }

Correlate ==
  /\ ~correlation.done
  /\ correlation' =
       [correlation EXCEPT
          !.done = TRUE,
          !.outcome = AutoCorrelate(correlation.buf, correlation.sampleRate)]
  /\ UNCHANGED << trainerVars, appVars, probe, chord >>

CorrelationSpec == CorrelationInit /\ [][Correlate]_vars

(* ------------------------------- claims -------------------------------- *)

\* A handler that took the trainer from a running session to idle.
StopStep == trainingState # "idle" /\ trainingState' = "idle"

\* C1: stop/reset from learning, locked or training leaves the session idle
\* with LearnedPattern and rolling history empty, confirmation counter 0,
\* streak 0, pattern cursor 0 and the BPM at the configured start BPM.
C1_StopResetsSession ==
  [][ StopStep =>
        /\ learnedPattern' = << >>
        /\ noteHistory' = << >>
        /\ patternMatches' = 0
        /\ streak' = 0
        /\ currentPatternProgressRef' = 0
        /\ bpm' = startBpm' ]_vars

\* C2: whenever a LearnedPattern exists (locked or training), the cursor
\* satisfies 0 <= cursor < length(LearnedPattern).
C2_CursorInRange ==
  trainingState \in {"locked", "training"} =>
    /\ 0 <= currentPatternProgressRef
    /\ currentPatternProgressRef < Len(learnedPattern)

\* C3: in training, after k consecutive full cycles of accepted on-cursor
\* hits with no missed beat, the session BPM is
\* min(startBpm + increment * floor(k / 3), targetBpm); k is counted by the
\* observer up to MaxExpStreak.
C3_TempoRamp ==
  (observing /\ trainingState = "training") =>
    bpm = Min(startBpm + increment * (expStreak \div 3), targetBpm)

\* C4: in every state of a started session the session BPM does not exceed
\* the configured target BPM, whatever the sliders were set to.
C4_BpmCapped == trainingState # "idle" => bpm <= targetBpm

\* A handler in training that accepted a hit: it set the per-beat flag.
HitStep ==
  /\ trainingState = "training"
  /\ ~hasPlayedOnThisBeatRef
  /\ hasPlayedOnThisBeatRef'

\* C5: in training, an accepted hit on the last element of the pattern
\* wraps the cursor to 0 and adds 1 to the streak; an accepted hit on any
\* other element advances the cursor by 1 and leaves the streak unchanged.
C5_HitAdvancesCursor ==
  [][ HitStep =>
        IF currentPatternProgressRef = Len(learnedPattern) - 1
        THEN currentPatternProgressRef' = 0 /\ streak' = streak + 1
        ELSE /\ currentPatternProgressRef' = currentPatternProgressRef + 1
             /\ streak' = streak ]_vars

\* A handler that delivered a new pitch class: a note event.
NoteStep == activeNote' # activeNote /\ activeNote' # NoNote

\* The lengths L of the mode's range for which the last L notes of h repeat
\* the L notes before them.
Repeats(h, cfg) ==
  { L \in cfg.min .. cfg.max :
      /\ Len(h) >= 2 * L
      /\ \A i \in 1 .. L : h[Len(h) - L + i] = h[Len(h) - 2 * L + i] }

\* C6: in learning, a note locks the trainer exactly when, after appending
\* it to the history, some L in the mode's range has the last L notes equal
\* to the L notes before them; the pattern is the last L notes for the
\* smallest such L, and the resulting state is locked with confirmation
\* counter 1 and empty history.  Otherwise the state stays learning.
C6_LearningLocks ==
  [][ (trainingState = "learning" /\ NoteStep) =>
        LET h    == Append(noteHistory, activeNote')
            reps == Repeats(h, COMPLEXITY_CONFIG[complexity])
        IN IF reps # {}
           THEN LET L == CHOOSE x \in reps : \A y \in reps : x <= y
                IN /\ trainingState' = "locked"
                   /\ learnedPattern' = SubSeq(h, Len(h) - L + 1, Len(h))
                   /\ patternMatches' = 1
                   /\ noteHistory' = << >>
           ELSE trainingState' = "learning" ]_vars

\* The note n takes the cursor of the locked phase to the pattern length,
\* by a match at the cursor or by a match one position ahead.
ReachesEnd(n) ==
  LET c == currentPatternProgressRef
      L == Len(learnedPattern)
  IN \/ n = At(learnedPattern, c) /\ c + 1 >= L
     \/ /\ n # At(learnedPattern, c)
        /\ c + 1 < L
        /\ n = At(learnedPattern, c + 1)
        /\ c + 2 >= L

EFG == << "E", "F", "G" >>

\* The cursor was wrapped to 0 by the locked phase: it is 0, or training
\* was entered and the training phase accepted the same note from cursor 0.
WrappedToZero ==
  \/ currentPatternProgressRef' = 0
  \/ /\ trainingState' = "training"
     /\ hasPlayedOnThisBeatRef'
     /\ currentPatternProgressRef' = 1

\* C7, each step: in locked, a note that takes the cursor to the pattern
\* length wraps it to 0 and adds 1 to the confirmation counter, and the
\* trainer enters training exactly when the counter reaches 5; any other
\* note keeps the trainer locked with the counter kept.  In simple mode the
\* input E,F,G,E,F,G locks [E,F,G] at its sixth note and not before.
C7_Step ==
  /\ (trainingState = "locked" /\ NoteStep) =>
       IF ReachesEnd(activeNote')
       THEN /\ WrappedToZero
            /\ patternMatches' = patternMatches + 1
            /\ (trainingState' = "training") = (patternMatches' = 5)
            /\ trainingState' \in {"locked", "training"}
       ELSE /\ patternMatches' = patternMatches
            /\ trainingState' = "locked"
  /\ (/\ trainingState = "learning"
      /\ complexity = "simple"
      /\ NoteStep
      /\ Len(noteHistory) < 6
      /\ Append(noteHistory, activeNote')
           = SubSeq(EFG \o EFG, 1, Len(noteHistory) + 1)) =>
       IF Len(noteHistory) = 5
       THEN /\ trainingState' = "locked"
            /\ learnedPattern' = EFG
            /\ patternMatches' = 1
            /\ currentPatternProgressRef' = 0
       ELSE /\ trainingState' = "learning"
            /\ noteHistory' = Append(noteHistory, activeNote')

\* C7: the steps above, and the counter is 5 in training and below 5 while
\* locked, so that training is reached only by the confirmation that takes
\* the counter to 5.
C7_ConfirmThenTrain ==
  /\ [][C7_Step]_vars
  /\ [](trainingState = "training" => patternMatches = 5)
  /\ [](trainingState = "locked" => patternMatches \in 1 .. 4)

C7_Witness ==
  /\ trainingState = "training"
  /\ learnedPattern = EFG
  /\ patternMatches = 5
  /\ currentPatternProgressRef = 0

\* The signed offset of the claim: t if t <= P/2, else t - P.
Offset(P, t) == IF 2 * t <= P THEN t ELSE t - P

\* C8: for a beat period P and a time t since the last tick, an on-cursor
\* note has signed offset d = t if t <= P/2, else t - P; it is rejected if
\* |d| >= 0.40 P; otherwise it is perfect if |d| <= 0.05 P, good if
\* 0.05 P < |d| <= 0.15 P, and fair if |d| > 0.15 P, labelled late for
\* d > 0 and early for d < 0.  With P = 500: t = 0 is perfect, t = 100 is
\* fair and late, t = 250 is rejected.
C8_TimingClassification ==
  probe.done =>
    LET P == probe.period
        t == probe.t
        d == Offset(P, t)
    IN /\ probe.diff = d
       /\ probe.valid = ~(100 * Abs(d) >= 40 * P)
       /\ (probe.valid /\ 100 * Abs(d) <= 5 * P) => probe.hitType = "perfect"
       /\ (probe.valid /\ 5 * P < 100 * Abs(d) /\ 100 * Abs(d) <= 15 * P)
            => probe.hitType = "good"
       /\ (probe.valid /\ 100 * Abs(d) > 15 * P) =>
            /\ probe.hitType = "fair"
            /\ d > 0 => probe.msg = "Late"
            /\ d < 0 => probe.msg = "Early"
       /\ (P = 500 /\ t = 0) => probe.valid /\ probe.hitType = "perfect"
       /\ (P = 500 /\ t = 100) =>
            probe.valid /\ probe.hitType = "fair" /\ probe.msg = "Late"
       /\ (P = 500 /\ t = 250) => ~probe.valid

C8_Witness ==
  /\ probe.done
  /\ probe.period = 500
  /\ probe.t = 100
  /\ probe.hitType = "fair"
  /\ probe.msg = "Late"

\* The three conditions of a hit for the note of this step: it is the
\* pattern element at the cursor, the per-beat flag is clear, and the offset
\* of its arrival lies inside the tolerance window of 40% of the period.
HitConditions ==
  LET P == Period(transportBpm)
  IN /\ activeNote' = At(learnedPattern, currentPatternProgressRef)
     /\ ~hasPlayedOnThisBeatRef
     /\ 100 * Abs(Offset(P, timeSinceLastBeat')) < 40 * P

\* C9: in training a note is accepted as a hit only if the three conditions
\* hold; a note that fails one of them changes neither cursor, streak, hit
\* flag, BPM nor the last feedback (so it raises no miss).
C9_RejectedNoteNoOp ==
  [][ (trainingState = "training" /\ NoteStep /\ ~HitConditions) =>
        UNCHANGED << currentPatternProgressRef, streak,
                     hasPlayedOnThisBeatRef, bpm, feedback >> ]_vars

\* A note on the cursor, with the flag clear, was just ignored because it
\* arrived 450 ms after the tick of a 750 ms beat (300 ms early, 40%).
C9_Witness ==
  /\ trainingState = "training"
  /\ timeSinceLastBeat = 450
  /\ transportBpm = 80
  /\ activeNote = At(learnedPattern, currentPatternProgressRef)
  /\ ~hasPlayedOnThisBeatRef

\* C10: in training, a tick that arrives with the per-beat flag clear and a
\* streak in progress resets the streak to 0 and raises the missed-beat
\* feedback.  The streak in progress is the observer's: the cycles completed
\* since the last missed beat.
C10_MissedBeat ==
  [][ (/\ Tick
       /\ observing
       /\ trainingState = "training"
       /\ ~hasPlayedOnThisBeatRef
       /\ ~expHit
       /\ expStreak > 0) =>
        (streak' = 0 /\ feedback'.hitType = "miss") ]_vars

\* C11: stop silences the beat clock under every interleaving: while the
\* trainer is idle the clock is not running (so no tick is delivered),
\* also when the stop came while the asynchronous start of the clock was
\* still pending.
C11_StopSilencesClock == trainingState = "idle" => transportState = "stopped"

\* C12: the phase changes only along idle -> learning (by the start
\* handler), learning -> locked (the history with the current note appended
\* holds a repetition), locked -> training (the confirmation counter reaches
\* 5) and any phase -> idle (by the stop handler).
C12_PhaseTransitions ==
  [][ trainingState' # trainingState =>
        \/ /\ trainingState = "idle"
           /\ trainingState' = "learning"
           /\ StartLearning
        \/ /\ trainingState = "learning"
           /\ trainingState' = "locked"
           /\ Repeats(Append(noteHistory, activeNote'),
                      COMPLEXITY_CONFIG[complexity]) # {}
        \/ /\ trainingState = "locked"
           /\ trainingState' = "training"
           /\ patternMatches = ConfirmTarget - 1
           /\ patternMatches' = ConfirmTarget
        \/ /\ trainingState' = "idle"
           /\ StopAllAudio ]_vars

\* A session went through every phase and was stopped: the clock carries
\* the tempo given to it on entering training, and the trainer is idle.
C12_Witness ==
  /\ trainingState = "idle"
  /\ transportBpm = 80
  /\ transportState = "stopped"
  /\ pendingInit = << >>

\* Some note, arriving on the beat with the per-beat flag clear, moves the
\* cursor or completes a cycle.
CanAdvance ==
  \E n \in SessionNotes :
    LET s == Effect([Cur EXCEPT !.activeNote = n,
                                !.hasPlayedOnThisBeatRef = FALSE], 0)
    IN \/ s.currentPatternProgressRef # currentPatternProgressRef
       \/ s.patternMatches # patternMatches
       \/ s.streak # streak

\* C13: the trainer never gets stuck: in every reachable locked or training
\* state at least one note, arriving at a suitable time, advances the
\* cursor.
C13_NeverStuck == trainingState \in {"locked", "training"} => CanAdvance

\* C14: while training, the beat clock's BPM (the one the timing windows
\* are computed from) equals the session BPM.
C14_ClockFollowsSession == trainingState = "training" => transportBpm = bpm

\* A run of the frame callback.
FrameStep == \E f \in FrameEstimates : Frame(f, FarTime)

\* C15: the stabilizer emits a new NoteEvent for a pitched frame exactly
\* when no note is held as previously emitted, or the frame's note name and
\* octave differ from the previously emitted ones, or its frequency differs
\* from the previously emitted frequency by at least 1 Hz.
C15_Debounce ==
  [][ (FrameStep /\ Pitched(frame')) =>
        LET n == GetNoteFromFrequency(frame')
        IN (currentNote' # currentNote) <=>
             \/ currentNote = NoNoteData
             \/ currentNote.note # << n.name, n.octave >>
             \/ Abs(currentNote.frequency - frame') >= Hz(1) ]_vars

\* A frame of the held note, half a hertz above the emitted frequency, was
\* suppressed.
C15_Witness ==
  /\ frame = Hz(330) + 1
  /\ currentNote = [note |-> << "E", 4 >>, frequency |-> Hz(330)]

\* C16: a frame whose estimate is 'no pitch' or lies outside the open range
\* 20..4000 Hz emits no NoteEvent and leaves the last emitted note and the
\* set of detected pitch classes unchanged; hence every emitted NoteEvent
\* has a frequency strictly between 20 and 4000 Hz.
C16_UnpitchedFrameNoOp ==
  /\ [][ (FrameStep /\ (\/ frame' = NoPitch
                        \/ frame' <= Hz(20)
                        \/ frame' >= Hz(4000))) =>
           UNCHANGED << currentNote, detectedNotes >> ]_vars
  /\ [](currentNote # NoNoteData =>
          (currentNote.frequency > Hz(20) /\ currentNote.frequency < Hz(4000)))

\* The held note survived a frame at 4000 Hz.
C16_Witness ==
  /\ frame = Hz(4000)
  /\ currentNote = [note |-> << "E", 4 >>, frequency |-> Hz(330)]
  /\ detectedNotes = {"E"}

\* C17: the set of detected pitch classes only grows between resets and is
\* emptied only by the reset button; stop-listening and the trainer's start
\* and stop leave it unchanged; and the reset leaves the trainer's phase,
\* learned pattern, cursor and counters unchanged.
C17_NoteSetIndependent ==
  [][ /\ (detectedNotes' # detectedNotes /\ ~ResetNotes) =>
           (detectedNotes \subseteq detectedNotes')
      /\ ((\E t \in ArrivalTimes : StopButton(t) \/ StartListening(t))
          \/ StartLearning \/ StopAllAudio) =>
           detectedNotes' = detectedNotes
      /\ ResetNotes =>
           /\ detectedNotes' = {}
           /\ UNCHANGED << trainingState, learnedPattern, noteHistory,
                           currentPatternProgressRef, patternMatches, streak,
                           bestStreak, bpm >> ]_vars

\* The note set was reset while the trainer holds a locked pattern.
C17_Witness == detectedNotes = {} /\ trainingState = "locked"

\* The pitch classes (0..11) of a list of note names.
PitchClassSet(notes) == {IndexOf(notes[i]) : i \in 1 .. Len(notes)}

\* The template k matches the set S at the root r: all its intervals are
\* present in S relative to r.
TemplateFits(S, r, k) ==
  \A j \in 1 .. Len(CHORD_TYPES[k].intervals) :
    (r + CHORD_TYPES[k].intervals[j]) % 12 \in S

\* C18: for every set S of pitch classes, identifyChord returns none if
\* |S| < 2 or no (root, template) pair matches; otherwise the match of the
\* lowest root of S that has a matching template and, for that root, the
\* earliest matching template of the table.  The result depends only on the
\* set.  {C,E,G} and {C,E,G,A} both give root C, type Major.
C18_ChordMatch ==
  chord.done =>
    LET S     == PitchClassSet(chord.notes)
        roots == {r \in S : \E k \in 1 .. Len(CHORD_TYPES) : TemplateFits(S, r, k)}
    IN /\ (Cardinality(S) < 2 \/ roots = {}) => ~chord.result.found
       /\ (Cardinality(S) >= 2 /\ roots # {}) =>
            LET r == CHOOSE x \in roots : \A y \in roots : x <= y
                k == CHOOSE x \in 1 .. Len(CHORD_TYPES) :
                       /\ TemplateFits(S, r, x)
                       /\ \A y \in 1 .. x - 1 : ~TemplateFits(S, r, y)
            IN /\ chord.result.found
               /\ chord.result.root = NOTE_NAMES[r + 1]
               /\ chord.result.type = CHORD_TYPES[k].name
       /\ S \in {{0, 4, 7}, {0, 4, 7, 9}} =>
            (chord.result.root = "C" /\ chord.result.type = "Major")

\* {C,E,G,A} given with A first was matched as C Major.
C18_Witness ==
  /\ chord.done
  /\ chord.notes = << "A", "G", "E", "C" >>
  /\ chord.result.root = "C"
  /\ chord.result.type = "Major"

\* C19: the autocorrelator rejects a malformed frame: called with a frame
\* whose length is not the expected frame length, or with a sample rate that
\* is not positive, it throws instead of returning a frequency or no pitch.
C19_MalformedFrameThrows ==
  (/\ correlation.done
   /\ \/ Len(correlation.buf) # FrameLength
      \/ correlation.sampleRate <= 0) =>
    correlation.outcome.kind = "throws"

\* C20: a failure of the AI analysis request (manual or background) leaves
\* the set of detected pitch classes, the current note, the stored analysis
\* and the trainer's state unchanged, and clears the request's in-flight
\* flag, so that the request can be issued again.
C20_AnalysisFailure ==
  [][ \A i \in 1 .. Len(requests) :
        AnalysisDone(i, FALSE) =>
          /\ UNCHANGED << detectedNotes, currentNote, analysis, trainerVars >>
          /\ requests[i].kind = "manual" => ~isAnalyzing'
          /\ requests[i].kind = "background" => ~isLiveUpdating' ]_vars

\* A background request failed during a learning session with an analysis
\* stored, and nothing is in flight.
C20_Witness ==
  /\ consoleError = "background"
  /\ requests = << >>
  /\ ~isLiveUpdating
  /\ analysis.present
  /\ trainingState = "learning"

\* A handler that took the trainer into locked.
EntersLocked == trainingState # "locked" /\ trainingState' = "locked"

\* C21: whenever the trainer enters locked, the pattern cursor is 0,
\* whatever happened in earlier sessions.  The cursor is the one the locked
\* phase starts from: the learning phase does not write it, and the first
\* run of the locked phase follows in the same handler.
C21_LockStartsAtZero ==
  [][ EntersLocked => currentPatternProgressRef = 0 ]_vars

\* The cursor was advanced to k by the locked phase; at the pattern length
\* the cycle is complete and the cursor wraps to 0.
AdvancedTo(k) ==
  IF k >= Len(learnedPattern) THEN WrappedToZero
  ELSE currentPatternProgressRef' = k

\* C22: in locked, a note equal to pattern[cursor] advances the cursor by 1;
\* otherwise, if cursor+1 is in range and the note equals pattern[cursor+1],
\* the cursor advances by 2; any other note changes no trainer state: the
\* cursor and the confirmation counter are kept, progress is not reset.
C22_LockedNote ==
  [][ (trainingState = "locked" /\ NoteStep) =>
        LET c == currentPatternProgressRef
            n == activeNote'
        IN IF n = At(learnedPattern, c) THEN AdvancedTo(c + 1)
           ELSE IF c + 1 < Len(learnedPattern) /\ n = At(learnedPattern, c + 1)
           THEN AdvancedTo(c + 2)
           ELSE UNCHANGED << trainingState, learnedPattern, noteHistory,
                             currentPatternProgressRef, patternMatches,
                             streak, bestStreak, bpm, feedback,
                             hasPlayedOnThisBeatRef, lastBeatTime,
                             transportState, transportBpm, pendingInit >> ]_vars

\* In [E,F,F] with the cursor on its last element, the note E was ignored.
C22_Witness ==
  /\ trainingState = "locked"
  /\ learnedPattern = << "E", "F", "F" >>
  /\ currentPatternProgressRef = 2
  /\ patternMatches = 3
  /\ activeNote = "E"

\* C23: in locked, the skip-ahead rule tolerates one skipped note: a cycle
\* of a pattern of length L adds to the confirmation counter only after at
\* least L-1 notes were accepted since the cursor was last 0 (the note that
\* completes the cycle included), i.e. at most one pattern element is
\* skipped per confirmed cycle.
C23_OneSkipPerCycle ==
  [][ (/\ observing
       /\ trainingState = "locked"
       /\ patternMatches' = patternMatches + 1) =>
        expAccepted + 1 >= Len(learnedPattern) - 1 ]_vars

C25_PatternImmutable ==
  /\ [][ (/\ trainingState \in {"locked", "training"}
          /\ trainingState' \in {"locked", "training"}) =>
           learnedPattern' = learnedPattern ]_vars
  /\ [](trainingState \in {"locked", "training"} =>
          /\ Len(learnedPattern) >= COMPLEXITY_CONFIG[complexity].min
          /\ Len(learnedPattern) <= COMPLEXITY_CONFIG[complexity].max)
  /\ [](COMPLEXITY_CONFIG =
          [ simple   |-> [min |-> 2, max |-> 4],
            balanced |-> [min |-> 3, max |-> 6],
            complex  |-> [min |-> 4, max |-> 10] ])
  /\ [][ trainingState # "idle" => complexity' = complexity ]_vars

\* A three-note pattern learnt in simple mode is still in place after hits
\* and a tick in training.
C25_Witness ==
  /\ trainingState = "training"
  /\ complexity = "simple"
  /\ learnedPattern = << "F", "E", "E" >>
  /\ currentPatternProgressRef = 2
  /\ lastBeatTime = 1

\* C26: in learning, the rolling history never holds more than 20 notes: a
\* note that makes no repetition is appended and, when the bound is
\* exceeded, the oldest note is discarded; the trainer stays in learning
\* until a repetition is found or the session is stopped.
C26_HistoryBounded ==
  /\ [](Len(noteHistory) <= 20)
  /\ [][ (/\ trainingState = "learning"
          /\ NoteStep
          /\ Repeats(Append(noteHistory, activeNote'),
                     COMPLEXITY_CONFIG[complexity]) = {}) =>
           /\ trainingState' = "learning"
           /\ noteHistory' = IF Len(noteHistory) < 20
                             THEN Append(noteHistory, activeNote')
                             ELSE Append(Tail(noteHistory), activeNote') ]_vars
  /\ [][ (trainingState = "learning" /\ trainingState' # "learning") =>
           \/ /\ trainingState' = "locked"
              /\ Repeats(Append(noteHistory, activeNote'),
                         COMPLEXITY_CONFIG[complexity]) # {}
           \/ StopAllAudio ]_vars

\* The history is full, and the trainer is still learning.
C26_Witness ==
  /\ trainingState = "learning"
  /\ Len(noteHistory) = HistoryLimit
  /\ activeNote = noteHistory[HistoryLimit]

\* C27: in training, a hit is accepted and the cursor advances only in
\* response to a new note event: a beat tick alone, while the same note is
\* still the active note and no new note event has arrived, never causes a
\* hit to be accepted.
C27_TickAloneNoHit ==
  [][ (Tick /\ trainingState = "training") =>
        /\ currentPatternProgressRef' = currentPatternProgressRef
        /\ ~hasPlayedOnThisBeatRef' ]_vars

\* The type identifyChord returns for a list of note names.
TypeOf(notes) == IdentifyChord(notes).type

\* C28: for every set of pitch classes, identifyChord never returns the
\* types Major 7th, Minor 7th or Dominant 7th: wherever one of them matches,
\* the earlier Major or Minor template matches at the same root.  Every
\* other type of the table (Major, Minor, Suspended 4th, Suspended 2nd,
\* Diminished, Augmented, Power Chord) is returned for some input.
C28_SeventhsShadowed ==
  /\ chord.done =>
       LET S == PitchClassSet(chord.notes)
       IN /\ chord.result.type \notin {"Major 7th", "Minor 7th", "Dominant 7th"}
          /\ \A r \in S :
               /\ TemplateFits(S, r, 3) => TemplateFits(S, r, 1)
               /\ TemplateFits(S, r, 4) => TemplateFits(S, r, 2)
               /\ TemplateFits(S, r, 5) => TemplateFits(S, r, 1)
  /\ CHORD_TYPES[3].name = "Major 7th" /\ CHORD_TYPES[1].name = "Major"
  /\ CHORD_TYPES[4].name = "Minor 7th" /\ CHORD_TYPES[2].name = "Minor"
  /\ CHORD_TYPES[5].name = "Dominant 7th"
  /\ TypeOf(<< "C", "E", "G" >>) = "Major"
  /\ TypeOf(<< "C", "D#", "G" >>) = "Minor"
  /\ TypeOf(<< "C", "F", "G" >>) = "Suspended 4th"
  /\ TypeOf(<< "C", "D", "G" >>) = "Suspended 2nd"
  /\ TypeOf(<< "C", "D#", "F#" >>) = "Diminished"
  /\ TypeOf(<< "C", "E", "G#" >>) = "Augmented"
  /\ TypeOf(<< "C", "G" >>) = "Power Chord"

\* The notes of G7 (G, B, D, F) were matched as G Major.
C28_Witness ==
  /\ chord.done
  /\ chord.notes = << "D", "F", "G", "B" >>
  /\ chord.result.root = "G"
  /\ chord.result.type = "Major"

\* C29: phase and session data are consistent in every reachable state:
\* idle implies an empty LearnedPattern and confirmation counter 0; learning
\* implies an empty LearnedPattern; locked implies a non-empty LearnedPattern
\* and a counter from 1 to 4; training implies a non-empty LearnedPattern
\* and counter 5.
C29_PhaseData ==
  /\ trainingState = "idle" =>
       (learnedPattern = << >> /\ patternMatches = 0)
  /\ trainingState = "learning" => learnedPattern = << >>
  /\ trainingState = "locked" =>
       (learnedPattern # << >> /\ patternMatches >= 1 /\ patternMatches <= 4)
  /\ trainingState = "training" =>
       (learnedPattern # << >> /\ patternMatches = 5)

\* A later session (the clock carries the tempo of an earlier training
\* phase) is locked and one cycle short of training.
C29_Witness ==
  /\ trainingState = "locked"
  /\ patternMatches = 4
  /\ transportBpm = 80
  /\ learnedPattern = << "E", "F" >>

\* C30: in training, no two accepted hits are credited to the same beat: an
\* early hit accepted before tick k (its offset measured to tick k) and a
\* late hit accepted after tick k are never both accepted, so that each beat
\* advances the cursor at most once.  A note event's hit with a
\* non-negative offset is not accepted while the beat already has a hit.
C30_OneHitPerBeat ==
  [][ (/\ observing
       /\ trainingState = "training"
       /\ NoteStep
       /\ HitStep
       /\ Diff(Period(transportBpm), timeSinceLastBeat') >= 0) =>
        expCredit # "this" ]_vars

====
